---- MODULE Spec2Model ----
(***************************************************************************)
(* Model of mtslinker/processor.py: process_video_clips,                   *)
(* create_video_with_gaps, create_audio_with_gaps, compile_final_video.    *)
(*                                                                         *)
(* Time.  Python floats are modelled on a dyadic grid: one tick is 1/128   *)
(* second, so every sum and difference the code forms is exact in IEEE     *)
(* doubles as well as here.  The tolerance 0.01 s lies strictly between    *)
(* one tick (0.0078 s) and two ticks (0.0156 s).  Audio results are        *)
(* measured in fine units of 1/(128 * 44100) second, so that one tick is   *)
(* SampleRate fine units and one audio sample is TicksPerSecond fine       *)
(* units.                                                                  *)
(*                                                                         *)
(* An optional value (Python None, an absent JSON key) is the empty        *)
(* sequence << >>; a present value v is << v >>.                           *)
(***************************************************************************)
EXTENDS Integers, Sequences, FiniteSets

VARIABLES pc, json, i, total_duration, video_clips, audio_clips, fetched,
          max_duration, video_result, audio_result, written, closed

vars == <<pc, json, i, total_duration, video_clips, audio_clips, fetched,
          max_duration, video_result, audio_result, written, closed>>

-----------------------------------------------------------------------------
(* Bounds of the model *)

MaxFrags == 2
MaxTime == 3
MaxTotal == 5
MaxEvents == 2
MaxRel == 1
MaxCompileTime == 1
MaxCompileTotal == 2
MaxCap == 2

TicksPerSecond == 2^7
SampleRate == 44100

Times == 0..MaxTime
Totals == 1..MaxTotal

None == << >>
Some(v) == << v >>

-----------------------------------------------------------------------------
(* Fragment handles and clip lists *)

\* A VideoFileClip / AudioFileClip handle: the decoder reports its duration.
Handle(kind, id, duration) == [kind |-> kind, id |-> id, duration |-> duration]

\* The lists of (start_time, clip) pairs of at most maxn clips; the id of a
\* handle is its position in the list it was given in.
ClipLists(kind, maxn, times) ==
    UNION { { [k \in 1..n |-> <<f[k][1], Handle(kind, k, f[k][2])>>] :
                f \in [1..n -> times \X times] } : n \in 0..maxn }

\* gap_duration > 0.01, for a duration in ticks
ExceedsToleranceStrictBug(d) == d > 0
ExceedsTolerance(d) == d * 100 > TicksPerSecond

RECURSIVE SumDurations(_)
SumDurations(clips) ==
    IF clips = << >> THEN 0
    ELSE clips[1].duration + SumDurations(Tail(clips))

-----------------------------------------------------------------------------
(* create_video_with_gaps *)

\* ColorClip(size, color=(0,0,0), duration)
ColorClip(duration) == [kind |-> "filler", id |-> 0, duration |-> duration]

InsertUnstable(sorted, x) ==
    LET before == SelectSeq(sorted, LAMBDA y : y[1] < x[1])
        after  == SelectSeq(sorted, LAMBDA y : y[1] >= x[1])
    IN  before \o <<x>> \o after

\* One step of the stable sort: x goes after every element whose key is <= its own.
Insert(sorted, x) ==
    LET before == SelectSeq(sorted, LAMBDA y : y[1] <= x[1])
        after  == SelectSeq(sorted, LAMBDA y : y[1] > x[1])
    IN  before \o <<x>> \o after

RECURSIVE SortFrom(_, _, _)
SortFrom(clips, k, acc) ==
    IF k > Len(clips) THEN acc
    ELSE SortFrom(clips, k + 1, Insert(acc, clips[k]))

\* sorted(clips, key=lambda x: x[0]): stable, ascending by start_time
SortedByStart(clips) == SortFrom(clips, 1, << >>)

GapFillerNoAdvance(st, start_time) ==
    IF start_time > st.current_time
    THEN LET gap_duration == start_time - st.current_time
         IN  IF ExceedsTolerance(gap_duration)
             THEN [clips |-> Append(st.clips, ColorClip(gap_duration)),
                   current_time |-> st.current_time]
             ELSE st
    ELSE st

\* The gap test in front of one fragment (lines 68-73)
GapFiller(st, start_time) ==
    IF start_time > st.current_time
    THEN LET gap_duration == start_time - st.current_time
         IN  IF ExceedsTolerance(gap_duration)
             THEN [clips |-> Append(st.clips, ColorClip(gap_duration)),
                   current_time |-> st.current_time + gap_duration]
             ELSE st
    ELSE st

\* The body of the loop for one (start_time, video) pair (lines 67-76)
WalkStep(st, pair) ==
    LET g == GapFiller(st, pair[1])
    IN  [clips |-> Append(g.clips, pair[2]),
         current_time |-> g.current_time + pair[2].duration]

RECURSIVE Walk(_, _, _)
Walk(sorted, k, st) ==
    IF k > Len(sorted) THEN st
    ELSE Walk(sorted, k + 1, WalkStep(st, sorted[k]))

TrailingFillerNone(st, total) == st.clips

\* The filler after the last fragment (lines 78-82)
TrailingFiller(st, total) ==
    IF st.current_time < total
    THEN LET remaining_duration == total - st.current_time
         IN  IF ExceedsTolerance(remaining_duration)
             THEN Append(st.clips, ColorClip(remaining_duration))
             ELSE st.clips
    ELSE st.clips

\* concatenate_videoclips(clips, method='chain'): the clips in sequence
Clip(clips) == [clips |-> clips, duration |-> SumDurations(clips),
                audio |-> None, cut |-> None]

NoClip == Clip(<< >>)

create_video_with_gaps(total, clips) ==
    IF clips = << >>
    THEN Clip(<<ColorClip(total)>>)
    ELSE LET video_clips_sorted == SortedByStart(clips)
             st == Walk(video_clips_sorted, 1,
                        [clips |-> << >>, current_time |-> 0])
         IN  Clip(TrailingFiller(st, total))

-----------------------------------------------------------------------------
(* create_audio_with_gaps *)

\* Seconds on the tick grid, in fine units
FineUnits(ticks) == ticks * SampleRate

\* silence_duration > 0.01, for a duration in fine units
ExceedsToleranceFine(d) == d * 100 > TicksPerSecond * SampleRate

SamplesRoundedUp(d) == (d + TicksPerSecond - 1) \div TicksPerSecond

\* int(d * 44100) for a duration d >= 0 in fine units: the whole samples in d
Samples(d) == d \div TicksPerSecond

\* AudioArrayClip(np.zeros((n, 2)), fps=44100): n stereo samples of silence;
\* its duration is n / fps
AudioArrayClip(n) ==
    [kind |-> "silence", id |-> 0, start |-> 0, duration |-> n * TicksPerSecond]

\* clip.with_start(t)
with_start(clip, t) == [clip EXCEPT !.start = t]

\* An audio fragment handle as a clip on the fine grid
AudioClipOf(handle) ==
    [kind |-> "audio", id |-> handle.id, start |-> 0,
     duration |-> FineUnits(handle.duration)]

RECURSIVE MaxEnd(_)
MaxEnd(segments) ==
    IF segments = << >> THEN 0
    ELSE LET e == segments[1].start + segments[1].duration
             r == MaxEnd(Tail(segments))
         IN  IF e > r THEN e ELSE r

\* CompositeAudioClip(segments): the clips overlaid; it lasts until the last end
CompositeAudioClip(segments) ==
    [segments |-> segments, duration |-> MaxEnd(segments)]

NoTrack == CompositeAudioClip(<< >>)

RECURSIVE Schedule(_, _, _)
\* The loop of lines 97-99
Schedule(sorted, k, audio_segments) ==
    IF k > Len(sorted) THEN audio_segments
    ELSE Schedule(sorted, k + 1,
                  Append(audio_segments,
                         with_start(AudioClipOf(sorted[k][2]),
                                    FineUnits(sorted[k][1]))))

PadWithSilenceAtZero(final_audio, total) ==
    IF final_audio.duration < FineUnits(total)
    THEN LET silence_duration == FineUnits(total) - final_audio.duration
         IN  IF ExceedsToleranceFine(silence_duration)
             THEN CompositeAudioClip(
                      Append(final_audio.segments,
                             AudioArrayClip(Samples(silence_duration))))
             ELSE final_audio
    ELSE final_audio

\* Lines 103-108: the trailing silence
PadWithSilence(final_audio, total) ==
    IF final_audio.duration < FineUnits(total)
    THEN LET silence_duration == FineUnits(total) - final_audio.duration
         IN  IF ExceedsToleranceFine(silence_duration)
             THEN CompositeAudioClip(
                      Append(final_audio.segments,
                             with_start(AudioArrayClip(Samples(silence_duration)),
                                        final_audio.duration)))
             ELSE final_audio
    ELSE final_audio

create_audio_with_gaps(total, clips) ==
    IF clips = << >>
    THEN CompositeAudioClip(<<AudioArrayClip(Samples(FineUnits(total)))>>)
    ELSE LET audio_clips_sorted == SortedByStart(clips)
             audio_segments == Schedule(audio_clips_sorted, 1, << >>)
         IN  PadWithSilence(CompositeAudioClip(audio_segments), total)

-----------------------------------------------------------------------------
(* process_video_clips *)

\* What the url of an event resolves to: the fetch returns nothing ("null"),
\* returns a path at which no file exists ("missing"), or delivers a file that
\* decodes as video, only as audio, or not at all ("garbage").
Medias == {"null", "missing", "video", "audio", "garbage"}

RelTimes == {None} \cup {Some(t) : t \in 0..MaxRel}

\* An entry of eventLogs: not a dict ("nondict"), a dict whose data is no dict
\* or holds no url ("nourl"), or a dict with data.url ("url").
Events ==
    { [kind |-> k, relativeTime |-> None, media |-> "null", duration |-> 0] :
        k \in {"nondict", "nourl"} }
    \cup
    { [kind |-> "url", relativeTime |-> r, media |-> m, duration |-> d] :
        r \in RelTimes, m \in Medias \ {"video", "audio"}, d \in {0} }
    \cup
    { [kind |-> "url", relativeTime |-> r, media |-> m, duration |-> d] :
        r \in RelTimes, m \in {"video", "audio"}, d \in {1, 2} }

EventLists == UNION { [1..n -> Events] : n \in 0..MaxEvents }

Inputs ==
    { [duration |-> d, eventLogs |-> e] :
        d \in {None} \cup {Some(t) : t \in (-1)..MaxRel}, e \in EventLists }

NoInput == [duration |-> None, eventLogs |-> << >>]

\* float(json_data.get('duration', 0))
DurationOf(data) == IF data.duration = None THEN 0 ELSE data.duration[1]

\* not total_duration
Falsy(x) == x = 0

\* isinstance(event, dict) and isinstance(data, dict) and 'url' in data
HasUrl(event) == event.kind = "url"

\* float(event.get('relativeTime', 0))
RelativeTime(event) ==
    IF event.relativeTime = None THEN 0 ELSE event.relativeTime[1]

\* download_video_chunk(url, directory): a path, or nothing
download_video_chunk(event, id) ==
    IF event.media = "null" THEN None ELSE Some(id)

\* os.path.exists(downloaded_file_path)
path_exists(event) == event.media # "missing"

\* VideoFileClip(path): the handle, or None when the constructor raises
VideoFileClip(event, id) ==
    IF event.media = "video" THEN Some(Handle("video", id, event.duration))
    ELSE None

\* AudioFileClip(path): the handle, or None when the constructor raises
AudioFileClip(event, id) ==
    IF event.media \in {"video", "audio"}
    THEN Some(Handle("audio", id, event.duration))
    ELSE None

\* if not total_duration: raise ValueError('Duration not found in JSON data.')
RaiseMissingDuration ==
    /\ pc = "call"
    /\ Falsy(DurationOf(json))
    /\ pc' = "raised"
    /\ UNCHANGED <<json, i, total_duration, video_clips, audio_clips, fetched,
                   max_duration, video_result, audio_result, written, closed>>

\* Lines 19-24 with a truthy duration
EnterLoop ==
    /\ pc = "call"
    /\ ~Falsy(DurationOf(json))
    /\ total_duration' = DurationOf(json)
    /\ video_clips' = << >>
    /\ audio_clips' = << >>
    /\ i' = 1
    /\ pc' = "loop"
    /\ UNCHANGED <<json, fetched, max_duration, video_result, audio_result,
                   written, closed>>

\* The fallback of lines 41-47: a failure to open as video is caught, and so
\* is a failure to open as audio
OpenFallbackAbort(event, start_time, lists) ==
    LET audio_clip == AudioFileClip(event, lists.id)
    IN  IF audio_clip # None
        THEN [lists EXCEPT !.audio = Append(@, <<start_time, audio_clip[1]>>)]
        ELSE [lists EXCEPT !.raised = TRUE]

OpenFallback(event, start_time, lists) ==
    LET audio_clip == AudioFileClip(event, lists.id)
    IN  IF audio_clip # None
        THEN [lists EXCEPT !.audio = Append(@, <<start_time, audio_clip[1]>>)]
        ELSE lists

\* Lines 38-47 for one downloaded file
OpenFragment(event, start_time, lists) ==
    LET video_clip == VideoFileClip(event, lists.id)
    IN  IF video_clip # None
        THEN [lists EXCEPT !.video = Append(@, <<start_time, video_clip[1]>>)]
        ELSE OpenFallback(event, start_time, lists)

\* One iteration of the loop over eventLogs (lines 26-47)
ProcessEvent ==
    /\ pc = "loop"
    /\ i <= Len(json.eventLogs)
    /\ LET event == json.eventLogs[i]
           lists == [id |-> i, video |-> video_clips, audio |-> audio_clips,
                     raised |-> FALSE]
       IN  IF ~HasUrl(event)
           THEN UNCHANGED <<video_clips, audio_clips, fetched, pc>>
           ELSE LET start_time == RelativeTime(event)
                    downloaded_file_path == download_video_chunk(event, i)
                    opened == OpenFragment(event, start_time, lists)
                IN  /\ fetched' = fetched \cup {i}
                    /\ IF downloaded_file_path = None \/ ~path_exists(event)
                       THEN UNCHANGED <<video_clips, audio_clips, pc>>
                       ELSE /\ video_clips' = opened.video
                            /\ audio_clips' = opened.audio
                            /\ pc' = IF opened.raised THEN "raised" ELSE "loop"
    /\ i' = i + 1
    /\ UNCHANGED <<json, total_duration, max_duration, video_result,
                   audio_result, written, closed>>

\* return total_duration, video_clips, audio_clips
ReturnClips ==
    /\ pc = "loop"
    /\ i > Len(json.eventLogs)
    /\ pc' = "returned"
    /\ UNCHANGED <<json, i, total_duration, video_clips, audio_clips, fetched,
                   max_duration, video_result, audio_result, written, closed>>

Init ==
    /\ pc = "call"
    /\ json \in Inputs
    /\ i = 0
    /\ total_duration = 0
    /\ video_clips = << >>
    /\ audio_clips = << >>
    /\ fetched = {}
    /\ max_duration = None
    /\ video_result = NoClip
    /\ audio_result = NoTrack
    /\ written = None
    /\ closed = {}

Next == RaiseMissingDuration \/ EnterLoop \/ ProcessEvent \/ ReturnClips

Spec == Init /\ [][Next]_vars

-----------------------------------------------------------------------------
(* Calls of create_video_with_gaps and of create_audio_with_gaps *)

InitVideo ==
    /\ pc = "video_call"
    /\ json = NoInput
    /\ i = 0
    /\ video_clips \in ClipLists("video", MaxFrags, Times)
    /\ total_duration \in Totals
    /\ audio_clips = << >>
    /\ fetched = {}
    /\ max_duration = None
    /\ video_result = NoClip
    /\ audio_result = NoTrack
    /\ written = None
    /\ closed = {}

CallCreateVideo ==
    /\ pc = "video_call"
    /\ video_result' = create_video_with_gaps(total_duration, video_clips)
    /\ pc' = "video_done"
    /\ UNCHANGED <<json, i, total_duration, video_clips, audio_clips, fetched,
                   max_duration, audio_result, written, closed>>

NextVideo == CallCreateVideo

SpecVideo == InitVideo /\ [][NextVideo]_vars

InitAudio ==
    /\ pc = "audio_call"
    /\ json = NoInput
    /\ i = 0
    /\ audio_clips \in ClipLists("audio", MaxFrags, Times)
    /\ total_duration \in Totals \cup {TicksPerSecond}
    /\ video_clips = << >>
    /\ fetched = {}
    /\ max_duration = None
    /\ video_result = NoClip
    /\ audio_result = NoTrack
    /\ written = None
    /\ closed = {}

CallCreateAudio ==
    /\ pc = "audio_call"
    /\ audio_result' = create_audio_with_gaps(total_duration, audio_clips)
    /\ pc' = "audio_done"
    /\ UNCHANGED <<json, i, total_duration, video_clips, audio_clips, fetched,
                   max_duration, video_result, written, closed>>

NextAudio == CallCreateAudio

SpecAudio == InitAudio /\ [][NextAudio]_vars

-----------------------------------------------------------------------------
(* compile_final_video *)

CompileTimes == 0..MaxCompileTime

MaxDurations == {None} \cup {Some(m) : m \in 0..MaxCap}

\* video_result.with_audio(combined_audio): the duration stays the video's
with_audio(clip, track) == [clip EXCEPT !.audio = Some(track)]

\* video_result.subclip(0, max_duration)
subclip(clip, end) ==
    [clip EXCEPT !.duration = end, !.cut = Some(<<0, end>>)]

\* Lines 117-121
Compose(total, videos, audios) ==
    LET timeline == create_video_with_gaps(total, videos)
    IN  IF audios # << >>
        THEN with_audio(timeline, create_audio_with_gaps(total, audios))
        ELSE timeline

NeedsCutIgnoringLength(clip, cap) == cap # None /\ cap[1] # 0

\* if max_duration: if video_result.duration > max_duration
NeedsCut(clip, cap) ==
    /\ cap # None
    /\ cap[1] # 0
    /\ clip.duration > cap[1]

\* Lines 123-126
Truncate(clip, cap) ==
    IF NeedsCut(clip, cap) THEN subclip(clip, cap[1]) ELSE clip

HandlesOf(clips) == { <<clips[k][2].kind, clips[k][2].id>> : k \in 1..Len(clips) }

InitCompile ==
    /\ pc = "compile_call"
    /\ json = NoInput
    /\ i = 0
    /\ video_clips \in ClipLists("video", MaxFrags, CompileTimes)
    /\ audio_clips \in ClipLists("audio", 1, CompileTimes)
    /\ total_duration \in 1..MaxCompileTotal
    /\ fetched = {}
    /\ max_duration \in MaxDurations
    /\ video_result = NoClip
    /\ audio_result = NoTrack
    /\ written = None
    /\ closed = {}

\* Lines 117-121: the timeline, with the audio track when there are audio clips
CompileCompose ==
    /\ pc = "compile_call"
    /\ video_result' = Compose(total_duration, video_clips, audio_clips)
    /\ pc' = "composed"
    /\ UNCHANGED <<json, i, total_duration, video_clips, audio_clips, fetched,
                   max_duration, audio_result, written, closed>>

\* Lines 123-126
CompileTruncate ==
    /\ pc = "composed"
    /\ video_result' = Truncate(video_result, max_duration)
    /\ pc' = "cut"
    /\ UNCHANGED <<json, i, total_duration, video_clips, audio_clips, fetched,
                   max_duration, audio_result, written, closed>>

\* Lines 128-138
CompileWrite ==
    /\ pc = "cut"
    /\ written' = Some(video_result)
    /\ pc' = "written"
    /\ UNCHANGED <<json, i, total_duration, video_clips, audio_clips, fetched,
                   max_duration, video_result, audio_result, closed>>

\* The close() calls of lines 141-144 in the order the code makes them: the
\* video fragments in list order, then the audio fragments in list order
CloseOrder(videos, audios) ==
    [k \in 1..(Len(videos) + Len(audios)) |->
        IF k <= Len(videos)
        THEN <<videos[k][2].kind, videos[k][2].id>>
        ELSE <<audios[k - Len(videos)][2].kind, audios[k - Len(videos)][2].id>>]

\* The handles closed by the first n fragment close() calls
ClosedAfter(videos, audios, n) ==
    { CloseOrder(videos, audios)[k] : k \in 1..n }

\* The numbers of fragment close() calls that can have returned when a close()
\* of lines 140-144 raises: none when video_result.close() or the first
\* fragment's close() raises, k - 1 when the k-th fragment's close() raises
ClosedBeforeFailure(videos, audios) ==
    {0} \cup 0..(Len(videos) + Len(audios) - 1)

\* Lines 140-144, every close() returning: reached only after write_videofile
\* has returned
CompileClose ==
    /\ pc = "written"
    /\ closed' = closed \cup HandlesOf(video_clips) \cup HandlesOf(audio_clips)
    /\ pc' = "compile_returned"
    /\ UNCHANGED <<json, i, total_duration, video_clips, audio_clips, fetched,
                   max_duration, video_result, audio_result, written>>

\* Lines 146-148: an exception raised anywhere in the try block (composing,
\* cutting, writing, or one of the close() calls) is logged and raised again;
\* nothing else is done, so the fragments not yet closed stay open
CompileRaise ==
    /\ \/ /\ \/ pc = "compile_call"
             \/ pc = "composed" /\ NeedsCut(video_result, max_duration)
             \/ pc = "cut"
          /\ UNCHANGED closed
       \/ /\ pc = "written"
          /\ \E n \in ClosedBeforeFailure(video_clips, audio_clips) :
                closed' = closed \cup ClosedAfter(video_clips, audio_clips, n)
    /\ pc' = "compile_raised"
    /\ UNCHANGED <<json, i, total_duration, video_clips, audio_clips, fetched,
                   max_duration, video_result, audio_result, written>>

NextCompile ==
    CompileCompose \/ CompileTruncate \/ CompileWrite \/ CompileClose
        \/ CompileRaise

SpecCompile == InitCompile /\ [][NextCompile]_vars

-----------------------------------------------------------------------------
(* Properties of create_video_with_gaps *)

IsFiller(seg) == seg.kind = "filler"

Fragments(clips) == SelectSeq(clips, LAMBDA seg : ~IsFiller(seg))

Fillers(clips) == SelectSeq(clips, IsFiller)

RECURSIVE SumSeq(_)
SumSeq(q) == IF q = << >> THEN 0 ELSE q[1] + SumSeq(Tail(q))

\* The gaps of a sorted non-empty list on the master timeline: before the first
\* fragment, between each fragment's end and the next one's start, and from
\* the last fragment's end to total.
NominalGaps(sorted, total) ==
    [k \in 1..(Len(sorted) + 1) |->
        IF k = 1 THEN sorted[1][1]
        ELSE IF k <= Len(sorted)
             THEN sorted[k][1] - (sorted[k-1][1] + sorted[k-1][2].duration)
             ELSE total - (sorted[k-1][1] + sorted[k-1][2].duration)]

\* A duration in ticks strictly below, or strictly above, 0.01 s
Below10ms(d) == d * 100 < TicksPerSecond
Above10ms(d) == d * 100 > TicksPerSecond

VideoGaps == NominalGaps(SortedByStart(video_clips), total_duration)

VideoDone == pc = "video_done" /\ video_clips # << >>

\* C2: for a non-empty list the durations of the concatenated segments sum to
\* at least total_duration - 0.01.
C2_TimelineCoversTotal ==
    VideoDone =>
        SumDurations(video_result.clips) * 100
            >= total_duration * 100 - TicksPerSecond

\* C2 witness: a timeline left short of total_duration by a remainder within
\* the tolerance.
C2_Witness ==
    /\ VideoDone
    /\ SumDurations(video_result.clips) = total_duration - 1

\* C4 as claimed: when every gap is non-negative and below 0.01 on its own,
\* no filler is produced.
C4_EachGapBelowTolerance ==
    (VideoDone /\ \A k \in DOMAIN VideoGaps :
                     VideoGaps[k] >= 0 /\ Below10ms(VideoGaps[k]))
        => Fillers(video_result.clips) = << >>

\* C4 amended: when the gaps are non-negative and together stay below 0.01,
\* no filler is produced (the walk measures each gap against the summed
\* durations so far, so the gaps before a fragment add up).
C4_GapsTogetherBelowTolerance ==
    (VideoDone /\ (\A k \in DOMAIN VideoGaps : VideoGaps[k] >= 0)
               /\ Below10ms(SumSeq(VideoGaps)))
        => Fillers(video_result.clips) = << >>

\* C4 witness: two fragments, a positive gap within the tolerance, no filler.
C4_Witness ==
    /\ VideoDone
    /\ Len(video_clips) >= 2
    /\ \A k \in DOMAIN VideoGaps : VideoGaps[k] >= 0
    /\ SumSeq(VideoGaps) = 1
    /\ Fillers(video_result.clips) = << >>

RECURSIVE ExpectedTimeline(_, _, _)
\* Each non-zero gap as one filler of its length, each fragment after its gap
ExpectedTimeline(sorted, gaps, k) ==
    IF k > Len(gaps) THEN << >>
    ELSE (IF gaps[k] > 0 THEN <<ColorClip(gaps[k])>> ELSE << >>)
         \o (IF k <= Len(sorted) THEN <<sorted[k][2]>> ELSE << >>)
         \o ExpectedTimeline(sorted, gaps, k + 1)

\* The fragments tile the timeline: no overlap, none past total, and every
\* gap either zero or above the tolerance.
CleanGaps ==
    \A k \in DOMAIN VideoGaps :
        VideoGaps[k] = 0 \/ Above10ms(VideoGaps[k])

\* The offset at which segment j begins in the concatenation
OffsetOf(clips, j) == SumDurations(SubSeq(clips, 1, j - 1))

\* C8: with clean gaps the output covers [0, total_duration] contiguously:
\* it is the fragments in sorted order with one filler of the gap's length in
\* each non-zero gap, every fragment begins at its start_time, and the total
\* is exactly total_duration.
C8_ContiguousCoverage ==
    (VideoDone /\ CleanGaps) =>
        LET sorted == SortedByStart(video_clips)
            out == video_result.clips
        IN  /\ out = ExpectedTimeline(sorted, VideoGaps, 1)
            /\ \A k \in 1..Len(sorted) :
                 \E j \in 1..Len(out) :
                    /\ out[j] = sorted[k][2]
                    /\ OffsetOf(out, j) = sorted[k][1]
            /\ SumDurations(out) = total_duration
            /\ video_result.duration = total_duration

\* C8 witness: one fragment strictly inside the timeline: filler, fragment,
\* filler.
C8_Witness ==
    /\ VideoDone
    /\ CleanGaps
    /\ Len(video_clips) = 1
    /\ Len(video_result.clips) = 3
    /\ IsFiller(video_result.clips[1])
    /\ video_result.clips[2] = video_clips[1][2]
    /\ video_result.clips[2].duration > 0
    /\ IsFiller(video_result.clips[3])

\* C10: without the fillers, the output is the input fragments, each once and
\* whole, ascending by start_time, equal start_times in input order.
C10_StableSortedFragments ==
    VideoDone =>
        LET real == Fragments(video_result.clips)
            n == Len(video_clips)
        IN  /\ Len(real) = n
            /\ \A j \in 1..n :
                 /\ real[j].id \in 1..n
                 /\ real[j] = video_clips[real[j].id][2]
            /\ \A j, k \in 1..n :
                 j < k =>
                    LET a == real[j].id
                        b == real[k].id
                    IN  \/ video_clips[a][1] < video_clips[b][1]
                        \/ (video_clips[a][1] = video_clips[b][1] /\ a < b)

\* C10 witness: two overlapping fragments with equal start_time behind a
\* filler, running past total_duration, both kept whole in input order.
C10_Witness ==
    /\ VideoDone
    /\ Len(video_clips) = 2
    /\ video_clips[1][1] = video_clips[2][1]
    /\ video_clips[1][2].duration > 0
    /\ IsFiller(video_result.clips[1])
    /\ video_result.duration > total_duration
    /\ Fragments(video_result.clips) = <<video_clips[1][2], video_clips[2][2]>>

-----------------------------------------------------------------------------
(* Properties of create_audio_with_gaps *)

Silences(track) == SelectSeq(track.segments, LAMBDA seg : seg.kind = "silence")

\* 0.01 s in fine units: 441 samples
ToleranceFine == 441 * TicksPerSecond

AudioEnds == { audio_clips[k][1] + audio_clips[k][2].duration :
                 k \in 1..Len(audio_clips) }

\* max(start_time + duration), in ticks
NaturalEnd == CHOOSE e \in AudioEnds : \A o \in AudioEnds : o <= e

SilentTrack ==
    /\ Len(audio_result.segments) = 1
    /\ audio_result.segments[1].kind = "silence"
    /\ audio_result.segments[1].start = 0
    /\ audio_result.segments[1].duration = audio_result.duration

\* C6 as claimed: with no audio fragment the result is one silent track whose
\* duration is exactly total_duration.
C6_SilenceExactlyTotal ==
    (pc = "audio_done" /\ audio_clips = << >>) =>
        /\ SilentTrack
        /\ audio_result.duration = FineUnits(total_duration)

\* C6 amended: with no audio fragment the result is one silent track of
\* int(total_duration * 44100) samples: never longer than total_duration,
\* shorter by less than one sample, and exactly total_duration just when
\* total_duration * 44100 is a whole number.
C6_SilenceWholeSamples ==
    (pc = "audio_done" /\ audio_clips = << >>) =>
        /\ SilentTrack
        /\ audio_result.duration % TicksPerSecond = 0
        /\ audio_result.duration <= FineUnits(total_duration)
        /\ audio_result.duration > FineUnits(total_duration) - TicksPerSecond
        /\ (audio_result.duration = FineUnits(total_duration))
              <=> ((total_duration * SampleRate) % TicksPerSecond = 0)

\* C6 witness: one whole second of silence, 44100 samples, nothing lost.
C6_Witness ==
    /\ pc = "audio_done"
    /\ audio_clips = << >>
    /\ total_duration = TicksPerSecond
    /\ audio_result.duration = SampleRate * TicksPerSecond

\* C7: for a non-empty list the track lasts at least total_duration - 0.01;
\* a shortfall of the natural end above 0.01 adds exactly one silent segment
\* that starts at the natural end, a smaller one adds none; every fragment is
\* scheduled at its own start_time.
C7_AudioCoversTotal ==
    (pc = "audio_done" /\ audio_clips # << >>) =>
        LET n == Len(audio_clips)
            segs == audio_result.segments
            short == FineUnits(total_duration) - FineUnits(NaturalEnd)
        IN  /\ audio_result.duration >= FineUnits(total_duration) - ToleranceFine
            /\ \A k \in 1..n :
                 \E j \in 1..n :
                    /\ segs[j].kind = "audio"
                    /\ segs[j].id = k
                    /\ segs[j].start = FineUnits(audio_clips[k][1])
                    /\ segs[j].duration = FineUnits(audio_clips[k][2].duration)
            /\ IF short > ToleranceFine
               THEN /\ Len(segs) = n + 1
                    /\ segs[n + 1].kind = "silence"
                    /\ segs[n + 1].start = FineUnits(NaturalEnd)
                    /\ audio_result.duration
                          = FineUnits(NaturalEnd) + segs[n + 1].duration
               ELSE /\ Len(segs) = n
                    /\ Silences(audio_result) = << >>
                    /\ audio_result.duration = FineUnits(NaturalEnd)

\* C7 witness: two overlapping fragments that end more than 0.01 s before
\* total_duration, followed by the silent segment.
C7_Witness ==
    /\ pc = "audio_done"
    /\ Len(audio_clips) = 2
    /\ audio_clips[1][1] < audio_clips[2][1]
    /\ audio_clips[2][1] < audio_clips[1][1] + audio_clips[1][2].duration
    /\ Len(Silences(audio_result)) = 1
    /\ audio_result.duration < FineUnits(total_duration)

-----------------------------------------------------------------------------
(* Properties of compile_final_video *)

CompileEnded == pc \in {"compile_returned", "compile_raised"}

\* C1: when the call ends, by return or by exception, every video and audio
\* fragment passed in has been closed.
C1_AllClosedWhenCallEnds ==
    CompileEnded =>
        (HandlesOf(video_clips) \cup HandlesOf(audio_clips)) \subseteq closed

Composed == Compose(total_duration, video_clips, audio_clips)

\* write_videofile has been called with the result
HandedOver == written # None

\* C3 as claimed: whenever max_duration is set (not None) and smaller than the
\* composed duration, the cut [0, max_duration] is written; otherwise the
\* composed result is written as it is.
C3_CutWheneverSet ==
    HandedOver =>
        IF max_duration # None /\ max_duration[1] < Composed.duration
        THEN /\ written[1].cut = Some(<<0, max_duration[1]>>)
             /\ written[1].duration = max_duration[1]
        ELSE written[1] = Composed

\* C3 amended: the cut is made whenever max_duration is set to a non-zero
\* value smaller than the composed duration; with max_duration None or 0, or
\* not below the composed duration, the composed result is written as it is.
C3_CutWheneverSetNonZero ==
    HandedOver =>
        IF /\ max_duration # None
           /\ max_duration[1] # 0
           /\ max_duration[1] < Composed.duration
        THEN /\ written[1].cut = Some(<<0, max_duration[1]>>)
             /\ written[1].duration = max_duration[1]
             /\ written[1].clips = Composed.clips
             /\ written[1].audio = Composed.audio
        ELSE written[1] = Composed

\* C3 witness: a composed result with audio attached, longer than a non-zero
\* max_duration, written with exactly max_duration.
C3_Witness ==
    /\ pc = "written"
    /\ audio_clips # << >>
    /\ max_duration # None
    /\ max_duration[1] > 0
    /\ Composed.duration > max_duration[1]
    /\ written[1].duration = max_duration[1]
    /\ written[1].audio # None

-----------------------------------------------------------------------------
(* Properties of process_video_clips *)

Processed == 1..(i - 1)

OpensAs(kind) ==
    { k \in Processed : /\ HasUrl(json.eventLogs[k])
                        /\ json.eventLogs[k].media = kind }

\* A returned list holds exactly the events of `ids`, in event order, each
\* with its start_time and its own handle.
HoldsExactly(clips, ids, kind) ==
    /\ Len(clips) = Cardinality(ids)
    /\ \A j \in 1..Len(clips) :
         /\ clips[j][2].id \in ids
         /\ clips[j][2].kind = kind
         /\ clips[j][1] = RelativeTime(json.eventLogs[clips[j][2].id])
    /\ \A j, k \in 1..Len(clips) : j < k => clips[j][2].id < clips[k][2].id

\* C5: with a valid duration the call never raises; after each event the two
\* lists hold exactly the fragments opened so far (a file that opens as video
\* in the video list, one that opens only as audio in the audio list, no
\* fragment in both), fragments that could not be fetched or opened are left
\* out, and the call returns after the last event.
C5_BadFragmentsDroppedAlone ==
    /\ ~Falsy(DurationOf(json)) => pc # "raised"
    /\ pc \in {"loop", "returned"} =>
         /\ HoldsExactly(video_clips, OpensAs("video"), "video")
         /\ HoldsExactly(audio_clips, OpensAs("audio"), "audio")
         /\ fetched = { k \in Processed : HasUrl(json.eventLogs[k]) }
    /\ pc = "returned" => i = Len(json.eventLogs) + 1

\* C5 witness: an undecodable file followed by an audio-only file; the call
\* has returned with the second fragment in the audio list.
C5_Witness ==
    /\ pc = "returned"
    /\ Len(json.eventLogs) = 2
    /\ json.eventLogs[1].kind = "url"
    /\ json.eventLogs[1].media = "garbage"
    /\ json.eventLogs[2].kind = "url"
    /\ json.eventLogs[2].media = "audio"
    /\ video_clips = << >>
    /\ Len(audio_clips) = 1
    /\ audio_clips[1][2].id = 2

\* C9: the call either raises before any fetch, or works with a
\* total_duration strictly greater than 0.
C9_PositiveDurationOrRaise ==
    /\ pc = "raised" => fetched = {} /\ video_clips = << >> /\ audio_clips = << >>
    /\ pc \in {"loop", "returned"} => total_duration > 0

====
